---- MODULE Spec2Model ----
(***************************************************************************)
(* The download job orchestrator of dev-Arsl-an/downloader.                *)
(*                                                                         *)
(* The repository holds several revisions of the same Express server.  A   *)
(* behaviour of this module runs one of them, named by rev:                *)
(*   "index"    src/index.js                                               *)
(*   "registry" src/unnamed/part_001 lines 1-138   (activeDownloads,       *)
(*              cleanupOldFiles, exec with exit callback)                  *)
(*   "link"     src/unnamed/part_001 lines 140-234 (spawn, /file link)     *)
(*   "railway"  src/unnamed/part_001 lines 236-636 (execAsync, SIGKILL)    *)
(*   "stream"   src/unnamed/part_002               (exec, streamFile)      *)
(*   "docker"   src/Dockerfile lines 50-604        (execAsync, SIGKILL)    *)
(***************************************************************************)
EXTENDS Integers, Sequences, FiniteSets, TLC

Revisions == {"index", "registry", "link", "railway", "stream", "docker"}

\* Revisions whose rate-limit table holds {count, resetTime} entries.
WindowRevs == {"index", "railway", "docker"}
\* Revisions whose rate-limit table holds a bare count, cleared by an interval.
CounterRevs == {"registry", "stream"}
\* Revisions with a rate-limit gate in front of POST /download.
GateRevs == WindowRevs \cup CounterRevs
\* Revisions whose interval timer deletes the expired {count, resetTime} entries.
ExpiryRevs == {"railway", "docker"}

RATE_LIMIT_WINDOW == 60000
RATE_LIMIT_MAX_REQUESTS == 10

\* Date.now() advances in steps of TickMs, at most MaxTicks times.
TickMs == 30000
MaxTicks == 3
\* Requests one client sends while one rate-limit entry lives.
MaxReq == 15

Clients == {"c1", "c2"}
\* The clients whose requests start jobs: the jobs of one client are those of any.
JobClients == {"c1"}

\* What the gate did with a request: it called next(), or it answered 429.
NEXT == 0
TOO_MANY == 429

VARIABLES
  rev,           \* the revision this behaviour runs
  now,           \* Date.now()
  rateLimitMap,  \* Map: client -> {count, resetTime} (WindowRevs) or count (CounterRevs)
  nextClear,     \* when the setInterval on the rate-limit table fires next
  gateLog,       \* per client: the gate's answers since the client's entry was created
  job,           \* per job: the request, its subprocess, its response and its timers
  disk,          \* the artifact directory: file name -> [size, age]
  activeDownloads, \* the registry revision's Set of in-use paths
  sweepReaddir,  \* cleanupOldFiles: fs.readdir is in flight
  sweepStat,     \* cleanupOldFiles: file name -> now - mtime, for each fs.stat in flight
  crashed,       \* an uncaught exception ended the server process
  post,          \* the POST /download last handled: its URL and what it was answered
  command,       \* the yt-dlp invocation last built: how it is run and the URL in it
  sweepFailed,   \* cleanupOldFiles: the files whose stat or unlink failed in this scan
  tool           \* the host's yt-dlp installations, the startup probe and its binding

gateVars == <<now, rateLimitMap, nextClear, gateLog>>
jobVars == <<job, disk, activeDownloads, sweepReaddir, sweepStat, crashed>>
vars == <<rev, gateVars, jobVars, post, command, sweepFailed, tool>>

----------------------------------------------------------------------------
(* Map helpers *)

EmptyMap == [x \in {} |-> 0]
MapSet(m, k, v) == [x \in DOMAIN m \cup {k} |-> IF x = k THEN v ELSE m[x]]
MapDelete(m, k) == [x \in DOMAIN m \ {k} |-> m[x]]

----------------------------------------------------------------------------
(* The rate-limit gate *)

\* index.js:63  if (clientData.count >= RATE_LIMIT_MAX_REQUESTS) -> 429
LimitReached_Off(count) == count > RATE_LIMIT_MAX_REQUESTS
LimitReached(count) == count >= RATE_LIMIT_MAX_REQUESTS

\* part_002:90  if (count > RATE_LIMIT.MAX) -> 429
OverLimit(count) == count > RATE_LIMIT_MAX_REQUESTS

\* index.js:58  if (now > clientData.resetTime)
WindowPassed(t, entry) == t > entry.resetTime

\* rateLimit without its count++.
rateLimit_NoCount(m, c, t) ==
  IF c \notin DOMAIN m
    THEN [map |-> MapSet(m, c, [count |-> 1, resetTime |-> t + RATE_LIMIT_WINDOW]),
          pass |-> TRUE, fresh |-> TRUE]
  ELSE IF WindowPassed(t, m[c])
    THEN [map |-> MapSet(m, c, [count |-> 1, resetTime |-> t + RATE_LIMIT_WINDOW]),
          pass |-> TRUE, fresh |-> TRUE]
  ELSE [map |-> m, pass |-> ~LimitReached(m[c].count), fresh |-> FALSE]

\* rateLimit of index.js, the railway and the docker revision: the table after
\* the request and whether next() was called.
rateLimit(m, c, t) ==
  IF c \notin DOMAIN m
    THEN [map |-> MapSet(m, c, [count |-> 1, resetTime |-> t + RATE_LIMIT_WINDOW]),
          pass |-> TRUE, fresh |-> TRUE]
  ELSE IF WindowPassed(t, m[c])
    THEN [map |-> MapSet(m, c, [count |-> 1, resetTime |-> t + RATE_LIMIT_WINDOW]),
          pass |-> TRUE, fresh |-> TRUE]
  ELSE IF LimitReached(m[c].count)
    THEN [map |-> m, pass |-> FALSE, fresh |-> FALSE]
  ELSE [map |-> MapSet(m, c, [m[c] EXCEPT !.count = @ + 1]),
        pass |-> TRUE, fresh |-> FALSE]

\* rateLimitMiddleware of part_002 and the inline gate of the registry revision.
rateLimitMiddleware(m, c) ==
  LET count == (IF c \in DOMAIN m THEN m[c] ELSE 0) + 1
  IN [map |-> MapSet(m, c, count), pass |-> ~OverLimit(count), fresh |-> FALSE]

\* The gate of the running revision, for a request at time t.
GateAt(c, t) ==
  IF rev \in WindowRevs THEN rateLimit(rateLimitMap, c, t)
  ELSE rateLimitMiddleware(rateLimitMap, c)

\* The gate's effect on the table and on the client's log of answers.
GateStepAt(c, t) ==
  LET g == GateAt(c, t)
      outcome == IF g.pass THEN NEXT ELSE TOO_MANY
  IN /\ rateLimitMap' = g.map
     /\ gateLog' = [gateLog EXCEPT ![c] =
                      IF g.fresh THEN << outcome >> ELSE Append(@, outcome)]

\* A request of client c reaches the gate.
Request(c) ==
  /\ rev \in GateRevs
  /\ Len(gateLog[c]) < MaxReq
  /\ GateStepAt(c, now)
  /\ UNCHANGED <<rev, post, command, sweepFailed, tool, now, nextClear, jobVars>>

\* Date.now() advances.
Tick ==
  /\ now < MaxTicks * TickMs
  /\ now' = now + TickMs
  /\ UNCHANGED <<rev, post, command, sweepFailed, tool, rateLimitMap, nextClear, gateLog, jobVars>>

\* setInterval(() => rateLimitMap.clear(), WINDOW) of the counter revisions.
ClearInterval ==
  /\ rev \in CounterRevs
  /\ now >= nextClear
  /\ rateLimitMap' = EmptyMap
  /\ gateLog' = [c \in Clients |-> <<>>]
  /\ nextClear' = now + RATE_LIMIT_WINDOW
  /\ UNCHANGED <<rev, post, command, sweepFailed, tool, now, jobVars>>

\* The interval of the railway and docker revisions deletes the expired entries.
ExpiryInterval ==
  /\ rev \in ExpiryRevs
  /\ now >= nextClear
  /\ LET gone == {c \in DOMAIN rateLimitMap : WindowPassed(now, rateLimitMap[c])}
     IN /\ rateLimitMap' = [c \in DOMAIN rateLimitMap \ gone |-> rateLimitMap[c]]
        /\ gateLog' = [c \in Clients |-> IF c \in gone THEN <<>> ELSE gateLog[c]]
  /\ nextClear' = now + RATE_LIMIT_WINDOW
  /\ UNCHANGED <<rev, post, command, sweepFailed, tool, now, jobVars>>

----------------------------------------------------------------------------
(* Jobs, files and the subprocess *)

\* Jobs one behaviour starts.
MaxJobs == 2
\* The largest file the external tool writes, in bytes.
MaxSize == 1

Jobs == 1..MaxJobs
\* What tells two files of one timestamp apart: the %(title)s of index.js, the
\* random id of the link, railway and docker revisions.
Tags == 1..MaxJobs
Stamps == {k * TickMs : k \in 0..MaxTicks}
FileNames == Stamps \X Tags

FILE_RETENTION_MS == 1800000

\* A file's age now - mtime, by the three cases the sweeper's comparison tells
\* apart: just written, exactly the retention window, one past it.
Ages == {0, FILE_RETENTION_MS, FILE_RETENTION_MS + 1}
NextAge(a) == IF a = 0 THEN FILE_RETENTION_MS ELSE FILE_RETENTION_MS + 1

\* Revisions that run the tool through promisify(exec) and await it.
ExecAsyncRevs == {"index", "railway", "docker"}
\* Revisions whose subprocess has a deadline timer.
DeadlineRevs == {"index", "registry", "link", "railway", "docker"}
\* Revisions that look the artifact up by the prefix video_<timestamp>_ alone.
PrefixRevs == {"index"}
\* Revisions that name the file by Date.now() alone.
StampOnlyRevs == {"registry", "stream"}

\* The signal the deadline sends: exec's default killSignal (index.js:208-211,
\* part_001:68), killSignal: 'SIGKILL' (part_001:517, Dockerfile:330),
\* proc.kill('SIGKILL') (part_001:214).
KillSignal(r) == IF r \in {"index", "registry"} THEN "SIGTERM" ELSE "SIGKILL"

NoJob ==
  [phase |-> "none", proc |-> "none", stamp |-> 0, tag |-> 1, timer |-> FALSE,
   expired |-> FALSE, sig |-> "none", code |-> "none", status |-> 0,
   file |-> <<0, 1>>, declared |-> 0, sent |-> 0, grace |-> FALSE,
   marker |-> FALSE]

\* The file the job's subprocess writes: outputPath with the template filled in.
OutputFile(j) == <<job[j].stamp, job[j].tag>>

\* The tag of a new job's file.
NewTag(r, j, title) ==
  IF r \in PrefixRevs THEN title
  ELSE IF r \in StampOnlyRevs THEN 1
  ELSE j

\* The timestamp in a new job's file name; the link revision's name holds none.
NewStamp(r, t) == IF r = "link" THEN 0 ELSE t

\* fs.existsSync
existsSync(d, f) == f \in DOMAIN d

\* cleanupFile (part_001:32-40), cleanup (part_002:241-248), fs.unlink: the
\* directory without the file; a missing file changes nothing.
cleanupFile(d, f) == MapDelete(d, f)

\* res.headersSent
headersSent(j) == job[j].status # 0

\* POST /download of a valid URL of a supported domain, wait ms after the
\* request before it: the gate admits the request and the handler starts the
\* subprocess.
Download(c, j, title, wait) ==
  /\ ~crashed
  /\ job[j].phase = "none"
  /\ \A i \in Jobs : i < j => job[i].phase # "none"
  /\ title = NewTag(rev, j, title)
  /\ now + wait <= MaxTicks * TickMs
  /\ now' = now + wait
  /\ IF rev \in GateRevs
       THEN GateAt(c, now').pass /\ GateStepAt(c, now')
       ELSE UNCHANGED <<rateLimitMap, gateLog>>
  /\ job' = [job EXCEPT ![j] =
       [NoJob EXCEPT !.phase = "exec", !.proc = "running",
                     !.stamp = NewStamp(rev, now'), !.tag = title,
                     !.timer = rev \in DeadlineRevs]]
  /\ UNCHANGED <<rev, post, command, sweepFailed, tool, nextClear, disk, activeDownloads, sweepReaddir,
                 sweepStat, crashed>>

\* The external tool writes size bytes to the job's output file.
ToolWrite(j, size) ==
  /\ ~crashed
  /\ job[j].proc = "running"
  /\ LET f == OutputFile(j)
     IN /\ ~(existsSync(disk, f) /\ disk[f].size = size /\ disk[f].age = 0)
        /\ disk' = MapSet(disk, f, [size |-> size, age |-> 0])
        \* a write after the scan makes now - mtime negative
        /\ sweepStat' = [g \in DOMAIN sweepStat |->
                           IF g = f THEN -1 ELSE sweepStat[g]]
  /\ UNCHANGED <<rev, post, command, sweepFailed, tool, gateVars, job, activeDownloads, sweepReaddir, crashed>>

\* Time passes over a file.  Only the registry revision reads a file's mtime.
FileAges(f) ==
  /\ ~crashed
  /\ rev = "registry"
  /\ existsSync(disk, f)
  /\ disk[f].age <= FILE_RETENTION_MS
  /\ disk' = [disk EXCEPT ![f].age = NextAge(@)]
  /\ UNCHANGED <<rev, post, command, sweepFailed, tool, gateVars, job, activeDownloads, sweepReaddir, sweepStat,
                 crashed>>

\* The deadline of exec's timeout option fires while the subprocess runs:
\* child.kill(killSignal).  SIGKILL ends the process; SIGTERM ends it unless
\* the process ignores the signal.
ExecTimeout(j, dies) ==
  /\ ~crashed
  /\ rev \in DeadlineRevs \ {"link"}
  /\ job[j].timer
  /\ job[j].proc = "running"
  /\ KillSignal(rev) = "SIGKILL" => dies
  /\ job' = [job EXCEPT ![j].timer = FALSE, ![j].expired = TRUE,
                        ![j].sig = KillSignal(rev),
                        ![j].proc = IF dies THEN "dying" ELSE "running"]
  /\ UNCHANGED <<rev, post, command, sweepFailed, tool, gateVars, disk, activeDownloads, sweepReaddir, sweepStat,
                 crashed>>

\* The setTimeout of the link revision (part_001:212-217).  Nothing clears it
\* and nothing but it sets proc.killed, so it fires once per job: it kills the
\* subprocess if that still runs and answers 408; res.status(408).json on a
\* response already sent throws in the timer callback.
LinkTimeout(j) ==
  /\ ~crashed
  /\ rev = "link"
  /\ job[j].timer
  /\ LET running == job[j].proc = "running"
         killed == [job[j] EXCEPT !.timer = FALSE,
                      !.expired = running,
                      !.sig = IF running THEN "SIGKILL" ELSE @,
                      !.proc = IF running THEN "dying" ELSE @]
     IN IF headersSent(j)
          THEN job' = [job EXCEPT ![j] = killed] /\ crashed' = TRUE
          ELSE job' = [job EXCEPT ![j] = [killed EXCEPT !.status = 408]]
               /\ UNCHANGED crashed
  /\ UNCHANGED <<rev, post, command, sweepFailed, tool, gateVars, disk, activeDownloads, sweepReaddir, sweepStat>>

\* The exit code the handler sees: the tool's own, or null after a signal.
ExitCodes(j) ==
  IF job[j].proc = "dying" THEN {"null"}
  ELSE IF job[j].proc = "running" THEN {"0", "1"}
  ELSE {}

\* The catch block of the execAsync revisions.  exec's error carries the exit
\* code (null after a signal), never the string 'TIMEOUT'; error.killed is set
\* once the timeout has called kill.  index.js:267-277 tests the code alone,
\* part_001:583-602 and Dockerfile:416-433 test error.killed too.
CatchStatus(r, code, killed) ==
  IF code = "TIMEOUT" THEN 408
  ELSE IF r \in {"railway", "docker"} /\ killed THEN 408
  ELSE 500

\* The files readdirSync(...).filter(startsWith(prefix)) returns for the job.
Found(j) ==
  IF rev \in PrefixRevs
    THEN {f \in DOMAIN disk : f[1] = job[j].stamp}
    ELSE {f \in DOMAIN disk : f = OutputFile(j)}

\* The job once its handler has set the headers and called createReadStream.
Opening(r, f) ==
  [r EXCEPT !.phase = "opening", !.file = f, !.declared = disk[f].size]

\* The job once its handler has answered with an error status.
Answered(r, status) == [r EXCEPT !.phase = "done", !.status = status]

\* await execAsync(command, {timeout, ...}) settles (index.js:208-278,
\* part_001:514-602, Dockerfile:327-434).  marker: stderr includes 'ERROR'.
ExecSettled(j, code, marker) ==
  /\ ~crashed
  /\ rev \in ExecAsyncRevs
  /\ job[j].phase = "exec"
  /\ code \in ExitCodes(j)
  /\ LET r == [job[j] EXCEPT !.proc = "gone", !.timer = FALSE, !.code = code,
                              !.marker = marker]
     IN IF code # "0"
          THEN job' = [job EXCEPT ![j] =
                         Answered(r, CatchStatus(rev, code, job[j].expired))]
        ELSE IF marker
          THEN job' = [job EXCEPT ![j] = Answered(r, 500)]
        ELSE IF Found(j) = {}
          THEN job' = [job EXCEPT ![j] = Answered(r, 404)]
        ELSE \E f \in Found(j) : job' = [job EXCEPT ![j] = Opening(r, f)]
  /\ UNCHANGED <<rev, post, command, sweepFailed, tool, gateVars, disk, activeDownloads, sweepReaddir, sweepStat,
                 crashed>>

\* process.on('exit') of the registry revision (part_001:70-89).  statSync of a
\* missing file throws in the callback, after activeDownloads.add.
RegistryExit(j, code) ==
  /\ ~crashed
  /\ rev = "registry"
  /\ job[j].phase = "exec"
  /\ code \in ExitCodes(j)
  /\ LET r == [job[j] EXCEPT !.proc = "gone", !.timer = FALSE, !.code = code]
         f == OutputFile(j)
     IN IF code # "0"
          THEN /\ disk' = cleanupFile(disk, f)
               /\ job' = [job EXCEPT ![j] =
                            Answered(r, IF headersSent(j) THEN r.status ELSE 500)]
               /\ UNCHANGED <<activeDownloads, crashed>>
        ELSE /\ activeDownloads' = activeDownloads \cup {f}
             /\ IF existsSync(disk, f)
                  THEN job' = [job EXCEPT ![j] = Opening(r, f)]
                       /\ UNCHANGED crashed
                  ELSE job' = [job EXCEPT ![j] = [r EXCEPT !.phase = "done"]]
                       /\ crashed' = TRUE
             /\ UNCHANGED disk
  /\ UNCHANGED <<rev, post, command, sweepFailed, tool, gateVars, sweepReaddir, sweepStat>>

\* process.on('exit') and streamFile of part_002 (part_002:187-222).  marker:
\* the tool's stderr includes 'ERROR'; the callback is given the code alone.
StreamRevExit(j, code, marker) ==
  /\ ~crashed
  /\ rev = "stream"
  /\ job[j].phase = "exec"
  /\ code \in ExitCodes(j)
  /\ LET r == [job[j] EXCEPT !.proc = "gone", !.code = code, !.marker = marker]
         f == OutputFile(j)
     IN IF code # "0"
          THEN /\ disk' = cleanupFile(disk, f)
               /\ job' = [job EXCEPT ![j] =
                            Answered(r, IF headersSent(j) THEN r.status ELSE 500)]
        ELSE IF ~existsSync(disk, f)
          THEN job' = [job EXCEPT ![j] = Answered(r, 404)] /\ UNCHANGED disk
        ELSE job' = [job EXCEPT ![j] = Opening(r, f)] /\ UNCHANGED disk
  /\ UNCHANGED <<rev, post, command, sweepFailed, tool, gateVars, activeDownloads, sweepReaddir, sweepStat, crashed>>

\* proc.on('close') of the link revision (part_001:205-211): res.json or
\* res.status(500).json, which throws when the timer has already answered 408.
LinkClose(j, code) ==
  /\ ~crashed
  /\ rev = "link"
  /\ job[j].phase = "exec"
  /\ code \in ExitCodes(j)
  /\ LET r == [job[j] EXCEPT !.proc = "gone", !.code = code, !.file = OutputFile(j)]
     IN IF headersSent(j)
          THEN job' = [job EXCEPT ![j] = [r EXCEPT !.phase = "done"]]
               /\ crashed' = TRUE
          ELSE job' = [job EXCEPT ![j] = Answered(r,
                         IF code = "0" /\ existsSync(disk, OutputFile(j))
                           THEN 200 ELSE 500)]
               /\ UNCHANGED crashed
  /\ UNCHANGED <<rev, post, command, sweepFailed, tool, gateVars, disk, activeDownloads, sweepReaddir, sweepStat>>

\* The read stream opens its file.  A missing file is an 'error' event:
\* index.js and the registry revision register no listener, so it is an
\* uncaught exception; part_001:559-567 and Dockerfile:391-399 answer 500;
\* part_002:225-231 cleans up and answers 500.  An open file sends the headers
\* with its first bytes.
StreamOpen(j) ==
  /\ ~crashed
  /\ job[j].phase = "opening"
  /\ LET f == job[j].file
     IN IF existsSync(disk, f)
          THEN job' = [job EXCEPT ![j].phase = "piping", ![j].status = 200,
                                  ![j].sent = disk[f].size]
               /\ UNCHANGED crashed
        ELSE IF rev \in {"index", "registry"}
          THEN job' = [job EXCEPT ![j].phase = "done"] /\ crashed' = TRUE
        ELSE job' = [job EXCEPT ![j] =
                       Answered(job[j], IF headersSent(j) THEN job[j].status ELSE 500)]
             /\ UNCHANGED crashed
  /\ UNCHANGED <<rev, post, command, sweepFailed, tool, gateVars, disk, activeDownloads, sweepReaddir, sweepStat>>

\* The read stream's 'end': index.js:254-260 and part_002:233-236 unlink the
\* file, part_001:84-87 releases the path and arms the 60 s timer,
\* part_001:569-576 and Dockerfile:401-409 arm the 1 s timer.
StreamEnd(j) ==
  /\ ~crashed
  /\ job[j].phase = "piping"
  /\ LET f == job[j].file
     IN /\ job' = [job EXCEPT ![j].phase = "done",
                              ![j].grace = rev \in {"registry", "railway", "docker"}]
        /\ disk' = IF rev \in {"index", "stream"} THEN cleanupFile(disk, f) ELSE disk
        /\ activeDownloads' = IF rev = "registry" THEN activeDownloads \ {f}
                              ELSE activeDownloads
  /\ UNCHANGED <<rev, post, command, sweepFailed, tool, gateVars, sweepReaddir, sweepStat, crashed>>

\* The timer armed at the stream's end fires: cleanupFile (part_001:86),
\* fs.unlink (part_001:571, Dockerfile:404).
GraceTimer(j) ==
  /\ ~crashed
  /\ job[j].grace
  /\ job' = [job EXCEPT ![j].grace = FALSE]
  /\ disk' = cleanupFile(disk, job[j].file)
  /\ UNCHANGED <<rev, post, command, sweepFailed, tool, gateVars, activeDownloads, sweepReaddir, sweepStat, crashed>>

----------------------------------------------------------------------------
(* The retention sweeper of the registry revision (part_001:42-60) *)

\* part_001:54  now - stats.mtimeMs > config.FILE_RETENTION_MS
PastRetention_Off(age) == age < FILE_RETENTION_MS
PastRetention(age) == age > FILE_RETENTION_MS

\* cleanupOldFiles is called, at start and by setInterval: fs.readdir starts.
\* A sweep starts when the previous one has no callback left.
SweepStart ==
  /\ ~crashed
  /\ rev = "registry"
  /\ ~sweepReaddir
  /\ sweepStat = EmptyMap
  /\ sweepReaddir' = TRUE
  /\ UNCHANGED <<rev, post, command, sweepFailed, tool, gateVars, job, disk, activeDownloads, sweepStat, crashed>>

\* The readdir callback: now is read, and fs.stat starts for every file that
\* activeDownloads does not hold.
SweepReaddir ==
  /\ ~crashed
  /\ sweepReaddir
  /\ sweepReaddir' = FALSE
  /\ sweepStat' = [f \in DOMAIN disk \ activeDownloads |-> disk[f].age]
  /\ sweepFailed' = {}
  /\ UNCHANGED <<rev, post, command, tool, gateVars, job, disk, activeDownloads, crashed>>

\* The stat callbacks still to run once the callback of f has run.  A failed
\* one halts them.
forEachRest_Halt(m, f, fails) == IF fails THEN EmptyMap ELSE MapDelete(m, f)
\* The stat callbacks still to run once the callback of f has run: forEach has
\* started one fs.stat per file, and a callback touches its own file only.
forEachRest(m, f, fails) == MapDelete(m, f)

\* One stat callback: the file is deleted if it is still there and older than
\* the retention window.  fails: fs.stat gives an error other than a missing
\* file, which `!err` skips, or unlinkSync throws, which cleanupFile catches
\* and logs; the file stays.
SweepStat(f, fails) ==
  /\ ~crashed
  /\ f \in DOMAIN sweepStat
  /\ fails => existsSync(disk, f)
  /\ sweepStat' = forEachRest(sweepStat, f, fails)
  /\ disk' = IF existsSync(disk, f) /\ PastRetention(sweepStat[f]) /\ ~fails
               THEN cleanupFile(disk, f) ELSE disk
  /\ sweepFailed' = IF fails THEN sweepFailed \cup {f} ELSE sweepFailed
  /\ UNCHANGED <<rev, post, command, tool, gateVars, job, activeDownloads, sweepReaddir, crashed>>

----------------------------------------------------------------------------
(* The request's URL and its validation *)

\* Host names are sequences of pieces; no domain of the list begins or ends
\* inside a piece, so that a substring of the name is a subsequence of pieces.
Dot == "."
\* Two of the domains every revision lists (index.js:85-88).
supportedDomains == {<<"youtube", Dot, "com">>, <<"tiktok", Dot, "com">>}

Hosts ==
  { <<"youtube", Dot, "com">>,
    <<"www", Dot, "youtube", Dot, "com">>,
    <<"not", "youtube", Dot, "com">>,
    <<"youtube", Dot, "com", Dot, "evil", Dot, "org">>,
    <<"example", Dot, "org">> }

\* The url field of the request body: absent, a string new URL() throws on, or
\* a string new URL() parses into a protocol and a hostname.
Missing == [kind |-> "missing", protocol |-> "", hostname |-> <<>>]
Malformed == [kind |-> "malformed", protocol |-> "", hostname |-> <<>>]
Urls ==
  {Missing, Malformed}
    \cup [kind : {"url"}, protocol : {"https:"}, hostname : Hosts]
    \cup [kind : {"url"}, protocol : {"http:", "ftp:"},
                          hostname : {<<"youtube", Dot, "com">>}]

\* String.prototype.includes and endsWith
includes(s, d) ==
  \E i \in 1..(Len(s) - Len(d) + 1) : SubSeq(s, i, i + Len(d) - 1) = d
endsWith(s, d) ==
  Len(s) >= Len(d) /\ SubSeq(s, Len(s) - Len(d) + 1, Len(s)) = d

\* new URL(url) does not throw
Parses(u) == u.kind = "url"

\* Revisions whose isValidUrl tests the protocol; part_002:103-110 only parses.
SchemeRevs == {"index", "link", "railway", "docker"}

isValidUrl(r, u) ==
  /\ Parses(u)
  /\ r \in SchemeRevs => u.protocol \in {"http:", "https:"}

isSupportedDomain(u) ==
  /\ Parses(u)
  /\ \E d \in supportedDomains : includes(u.hostname, d) \/ endsWith(u.hostname, d)

BAD_REQUEST == 400

\* The handler's checks of the URL: the status it answers, or 0 when it goes
\* on to start the subprocess.  The registry revision (part_001:106-114) tests
\* only that the URL is there and parses.
Validate(r, u) ==
  IF u.kind = "missing" THEN BAD_REQUEST
  ELSE IF r = "registry" THEN (IF Parses(u) THEN 0 ELSE BAD_REQUEST)
  ELSE IF ~isValidUrl(r, u) THEN BAD_REQUEST
  ELSE IF ~isSupportedDomain(u) THEN BAD_REQUEST
  ELSE 0

\* The gate lets the request through to the handler: it calls next() and does
\* not return the 429.  The link revision has no gate.
Admitted_Off(c, t) == TRUE
Admitted(c, t) == rev \in GateRevs => GateAt(c, t).pass

NoPost == [flip |-> 0, client |-> "c1", url |-> Missing, status |-> 0]

\* The job slot of the next request that starts a subprocess.
FreeJob == {j \in Jobs : job[j].phase = "none"
                         /\ \A i \in Jobs : i < j => job[i].phase # "none"}

\* POST /download with any body: the gate, then the handler's checks of the
\* URL, then the start of the subprocess.  Each request is for another video.
Post(c, u) ==
  /\ ~crashed
  /\ rev \in GateRevs => Len(gateLog[c]) < MaxReq
  /\ IF rev \in GateRevs THEN GateStepAt(c, now)
                         ELSE UNCHANGED <<rateLimitMap, gateLog>>
  /\ LET rejected == rev \in GateRevs /\ ~GateAt(c, now).pass
         status == IF rejected THEN TOO_MANY ELSE Validate(rev, u)
     IN /\ post' = [flip |-> 1 - post.flip, client |-> c, url |-> u,
                    status |-> status]
        /\ IF Admitted(c, now) /\ Validate(rev, u) = 0
             THEN \E j \in FreeJob :
                    job' = [job EXCEPT ![j] =
                      [NoJob EXCEPT !.phase = "exec", !.proc = "running",
                                    !.stamp = NewStamp(rev, now),
                                    !.tag = NewTag(rev, j, j),
                                    !.timer = rev \in DeadlineRevs]]
             ELSE UNCHANGED job
  /\ UNCHANGED <<rev, now, nextClear, disk, activeDownloads, sweepReaddir,
                 sweepStat, crashed, command, sweepFailed, tool>>

----------------------------------------------------------------------------
(* The yt-dlp invocation and the text of the URL in it *)

\* A text is a sequence of runs, n times the character ch, so that a text
\* longer than the sanitizer's limit stays small.  Ordinary stands for every
\* character that neither the sanitizer nor the shell treats specially.
Ordinary == "a"

\* The characters written here by name.
Backslash == "backslash"
Backtick == "backtick"
DoubleQuote == "double quote"
LineBreak == "line break"

\* The characters of the class in url.replace(/[;&|`$(){}[\]\\]/g, '').
Stripped == {";", "&", "|", Backtick, "$", "(", ")", "{", "}", "[", "]", Backslash}

\* Characters with a meaning to /bin/sh: operators, expansions, quotes,
\* redirections and the line break.
ShellMeta == Stripped \cup {DoubleQuote, "'", "<", ">", LineBreak}

\* The limit of .substring(0, 500).
MaxUrlLength == 500

\* The characters and run lengths of the texts explored.
Chars == {Ordinary, ";", "$", DoubleQuote, "'", ">", LineBreak}
MaxRuns == 2
Texts ==
  UNION {[1..k -> [ch : Chars, n : {1, MaxUrlLength}]] : k \in 0..MaxRuns}

\* The URLs that reach the command: new URL() parses them, so they start with
\* the letters of a scheme; the characters after the host are free.
UrlTexts == {u \in Texts : u # <<>> /\ u[1].ch = Ordinary}

\* string.length
RECURSIVE length(_)
length(s) == IF s = <<>> THEN 0 ELSE Head(s).n + length(Tail(s))

\* string.replace(/[;&|`$(){}[\]\\]/g, '')
IsKept(run) == run.ch \notin Stripped
replace(s) == SelectSeq(s, IsKept)

\* string.substring(0, k)
RECURSIVE substring(_, _)
substring(s, k) ==
  IF s = <<>> \/ k = 0 THEN <<>>
  ELSE IF Head(s).n <= k
    THEN <<Head(s)>> \o substring(Tail(s), k - Head(s).n)
  ELSE <<[ch |-> Head(s).ch, n |-> k]>>

\* sanitizeUrl (index.js:101-103, part_001:361-363, Dockerfile:171-173)
sanitizeUrl(url) == substring(replace(url), MaxUrlLength)

\* The characters of a text.
CharsOf(s) == {s[i].ch : i \in DOMAIN s}

NoCommand == [built |-> FALSE, shell |-> FALSE, quote |-> "", url |-> <<>>,
              raw |-> <<>>, program |-> <<>>]

\* The forms in which yt-dlp is run, as the words of the command: the
\* executable, or the module through an interpreter.
YtDlp == <<"yt-dlp">>
Python3 == <<"python3", "-m", "yt_dlp">>
Python == <<"python", "-m", "yt_dlp">>
Forms == {YtDlp, Python3, Python}

\* The forms the startup probe tries with --version, in its order:
\* index.js:106-115 and part_001:127 try the executable alone,
\* part_001:180 two forms, part_002:133-137, part_001:366-391 and
\* Dockerfile:176-201 all three.
commands(r) ==
  IF r \in {"index", "registry"} THEN <<YtDlp>>
  ELSE IF r = "link" THEN <<YtDlp, Python3>>
  ELSE <<YtDlp, Python3, Python>>

\* What the probe stores for the form that worked: cmd.split(' ')[0] in
\* ytDlpCommand (part_001:184, part_002:142), the method's name in
\* ytDlpMethod (part_001:366-391 and 613, Dockerfile:176-201 and 583);
\* index.js and the registry revision store nothing.
ProbeBinding(r, cmd) == <<Head(cmd)>>

\* The words a download's command starts with: ytDlpCommand (part_001:204,
\* part_002:160), baseCommand chosen by ytDlpMethod (part_001:411-415,
\* Dockerfile:221-225), the literal 'yt-dlp' (index.js:131, part_001:65).
baseCommand(r, bound) ==
  IF r \in {"index", "registry"} THEN YtDlp
  ELSE IF r \in {"railway", "docker"}
    THEN IF bound = <<"python3">> THEN Python3
         ELSE IF bound = <<"python">> THEN Python
         ELSE YtDlp
  ELSE bound

\* The server that found the executable at startup and listens.
Listening ==
  [installed |-> {YtDlp}, phase |-> "listening", verified |-> YtDlp,
   bound |-> <<"yt-dlp">>]


\* How each revision builds and starts the invocation.  index.js:129-161 and
\* Dockerfile:261-262 join the words into one string with "${sanitizeUrl(url)}"
\* and give it to execAsync; part_001:464-465 does so with single quotes;
\* part_001:65 and part_002:159-170 put the request's url unquoted into the
\* string given to exec; part_001:200-204 gives spawn the array of arguments,
\* the url as its last element.  exec runs its string with /bin/sh -c.
buildDownloadCommand(r, url, bound) ==
  IF r \in {"index", "docker"}
    THEN [built |-> TRUE, shell |-> TRUE, quote |-> DoubleQuote,
          url |-> sanitizeUrl(url), raw |-> url,
          program |-> baseCommand(r, bound)]
  ELSE IF r = "railway"
    THEN [built |-> TRUE, shell |-> TRUE, quote |-> "'",
          url |-> sanitizeUrl(url), raw |-> url,
          program |-> baseCommand(r, bound)]
  ELSE IF r \in {"registry", "stream"}
    THEN [built |-> TRUE, shell |-> TRUE, quote |-> "", url |-> url, raw |-> url,
          program |-> baseCommand(r, bound)]
  ELSE [built |-> TRUE, shell |-> FALSE, quote |-> "", url |-> url, raw |-> url,
          program |-> baseCommand(r, bound)]

\* The handler builds the invocation for a URL that passed its checks.
BuildCommand(url) ==
  /\ ~crashed
  /\ tool.phase = "listening"
  /\ command' = buildDownloadCommand(rev, url, tool.bound)
  /\ UNCHANGED <<rev, post, gateVars, jobVars, sweepFailed, tool>>

\* startServer: the probe runs each form with --version until one works,
\* binds it and the server listens; if none works the process exits.
Probe ==
  /\ tool.phase = "probing"
  /\ LET cmds == commands(rev)
         works == {i \in DOMAIN cmds : cmds[i] \in tool.installed}
     IN IF works = {}
          THEN tool' = [tool EXCEPT !.phase = "exited"]
          ELSE LET first == CHOOSE i \in works : \A k \in works : i <= k
               IN tool' = [tool EXCEPT !.phase = "listening",
                                       !.verified = cmds[first],
                                       !.bound = ProbeBinding(rev, cmds[first])]
  /\ UNCHANGED <<rev, post, command, sweepFailed, gateVars, jobVars>>

----------------------------------------------------------------------------
(* Specifications *)

InitGate ==
  /\ now = 0
  /\ rateLimitMap = EmptyMap
  /\ nextClear = RATE_LIMIT_WINDOW
  /\ gateLog = [c \in Clients |-> <<>>]

InitJobs ==
  /\ job = [j \in Jobs |-> NoJob]
  /\ disk = EmptyMap
  /\ activeDownloads = {}
  /\ sweepReaddir = FALSE
  /\ sweepStat = EmptyMap
  /\ crashed = FALSE
  /\ post = NoPost
  /\ command = NoCommand
  /\ sweepFailed = {}
  /\ tool = Listening

\* The rate-limit gate alone: what the handler does after next() is left out.
GateInit ==
  /\ rev \in GateRevs
  /\ InitGate
  /\ InitJobs

GateNext ==
  \/ \E c \in Clients : Request(c)
  \/ Tick
  \/ ClearInterval
  \/ ExpiryInterval

SpecGate == GateInit /\ [][GateNext]_vars

\* The gate with its clock and timers kept running: time passes, and a
\* setInterval callback that is due is run.  No client is obliged to return.
SpecGateFair ==
  /\ GateInit
  /\ [][GateNext]_vars
  /\ WF_vars(Tick)
  /\ WF_vars(ClearInterval)
  /\ WF_vars(ExpiryInterval)

\* The jobs, their files and the sweeper.
Init ==
  /\ rev \in Revisions
  /\ InitGate
  /\ InitJobs

Next ==
  \/ \E c \in JobClients, j \in Jobs, title \in Tags, wait \in {0, TickMs} :
       Download(c, j, title, wait)
  \/ \E j \in Jobs, size \in 0..MaxSize : ToolWrite(j, size)
  \/ \E f \in FileNames : FileAges(f)
  \/ \E j \in Jobs, dies \in BOOLEAN : ExecTimeout(j, dies)
  \/ \E j \in Jobs : LinkTimeout(j)
  \/ \E j \in Jobs, code \in {"0", "1", "null"}, marker \in BOOLEAN :
       ExecSettled(j, code, marker)
  \/ \E j \in Jobs, code \in {"0", "1", "null"} : RegistryExit(j, code)
  \/ \E j \in Jobs, code \in {"0", "1", "null"}, marker \in BOOLEAN :
       StreamRevExit(j, code, marker)
  \/ \E j \in Jobs, code \in {"0", "1", "null"} : LinkClose(j, code)
  \/ \E j \in Jobs : StreamOpen(j)
  \/ \E j \in Jobs : StreamEnd(j)
  \/ \E j \in Jobs : GraceTimer(j)
  \/ SweepStart
  \/ SweepReaddir
  \/ \E f \in FileNames : SweepStat(f, FALSE)

Spec == Init /\ [][Next]_vars

\* The requests up to the start of their subprocess, with any URL.
AdmitNext ==
  \/ \E c \in JobClients, u \in Urls : Post(c, u)
  \/ Tick
  \/ ClearInterval
  \/ ExpiryInterval

SpecAdmit == Init /\ [][AdmitNext]_vars

\* The construction of the invocation alone, for every text of a URL.
CommandNext == \E url \in UrlTexts : BuildCommand(url)

SpecCommand == Init /\ [][CommandNext]_vars

\* The server from its start on any host: the probe, then the commands built.
ProbeInit ==
  /\ rev \in Revisions
  /\ InitGate
  /\ job = [j \in Jobs |-> NoJob]
  /\ disk = EmptyMap
  /\ activeDownloads = {}
  /\ sweepReaddir = FALSE
  /\ sweepStat = EmptyMap
  /\ crashed = FALSE
  /\ post = NoPost
  /\ command = NoCommand
  /\ sweepFailed = {}
  /\ \E inst \in SUBSET Forms :
       tool = [installed |-> inst, phase |-> "probing", verified |-> <<>>,
               bound |-> <<"yt-dlp">>]

ProbeNext ==
  \/ Probe
  \/ \E url \in UrlTexts : BuildCommand(url)

SpecProbe == ProbeInit /\ [][ProbeNext]_vars

\* The registry revision alone, with its sweeper kept running: setInterval
\* calls cleanupOldFiles again and again, and the readdir and stat callbacks
\* it has queued are run.  The one-hour deadline of exec is left out: a tool
\* it kills ends like one that fails.
SweepInit ==
  /\ rev = "registry"
  /\ InitGate
  /\ InitJobs

SweepNext ==
  \/ \E c \in JobClients, j \in Jobs, title \in Tags, wait \in {0, TickMs} :
       Download(c, j, title, wait)
  \/ \E j \in Jobs, size \in 0..MaxSize : ToolWrite(j, size)
  \/ \E f \in FileNames : FileAges(f)
  \/ \E j \in Jobs, code \in {"0", "1", "null"} : RegistryExit(j, code)
  \/ \E j \in Jobs : StreamOpen(j)
  \/ \E j \in Jobs : StreamEnd(j)
  \/ \E j \in Jobs : GraceTimer(j)
  \/ SweepStart
  \/ SweepReaddir
  \/ \E f \in FileNames : SweepStat(f, FALSE)

SpecSweep ==
  /\ SweepInit
  /\ [][SweepNext]_vars
  /\ WF_vars(SweepStart)
  /\ WF_vars(SweepReaddir)
  /\ WF_vars(\E f \in FileNames : SweepStat(f, FALSE))

\* The registry revision with its sweeper kept running on a file system
\* where fs.stat and unlinkSync may fail.
SweepFaultyNext ==
  \/ \E c \in JobClients, j \in Jobs, title \in Tags, wait \in {0, TickMs} :
       Download(c, j, title, wait)
  \/ \E j \in Jobs, size \in 0..MaxSize : ToolWrite(j, size)
  \/ \E f \in FileNames : FileAges(f)
  \/ \E j \in Jobs, code \in {"0", "1", "null"} : RegistryExit(j, code)
  \/ \E j \in Jobs : StreamOpen(j)
  \/ \E j \in Jobs : StreamEnd(j)
  \/ \E j \in Jobs : GraceTimer(j)
  \/ SweepStart
  \/ SweepReaddir
  \/ \E f \in FileNames, fails \in BOOLEAN : SweepStat(f, fails)

SpecSweepFaulty ==
  /\ SweepInit
  /\ [][SweepFaultyNext]_vars
  /\ WF_vars(SweepStart)
  /\ WF_vars(SweepReaddir)
  /\ WF_vars(\E f \in FileNames, fails \in BOOLEAN : SweepStat(f, fails))

\* The revisions that answer from the subprocess's exit or close callback,
\* with timers and process events delivered: a deadline that is armed fires,
\* the exit of a killed process is reported, and a stream that was opened
\* gets its events.  The tool itself is not obliged ever to exit.
LiveInit ==
  /\ rev \in {"link", "registry", "stream"}
  /\ InitGate
  /\ InitJobs

Reported(j) ==
  /\ job[j].proc = "dying"
  /\ \/ RegistryExit(j, "null")
     \/ LinkClose(j, "null")
     \/ \E marker \in BOOLEAN : StreamRevExit(j, "null", marker)

LiveNext ==
  \/ \E c \in JobClients, j \in Jobs, title \in Tags, wait \in {0, TickMs} :
       Download(c, j, title, wait)
  \/ \E j \in Jobs, size \in 0..MaxSize : ToolWrite(j, size)
  \/ \E j \in Jobs, dies \in BOOLEAN : ExecTimeout(j, dies)
  \/ \E j \in Jobs : LinkTimeout(j)
  \/ \E j \in Jobs, code \in {"0", "1", "null"} : RegistryExit(j, code)
  \/ \E j \in Jobs, code \in {"0", "1", "null"}, marker \in BOOLEAN :
       StreamRevExit(j, code, marker)
  \/ \E j \in Jobs, code \in {"0", "1", "null"} : LinkClose(j, code)
  \/ \E j \in Jobs : StreamOpen(j)
  \/ \E j \in Jobs : StreamEnd(j)
  \/ \E j \in Jobs : GraceTimer(j)

SpecLive ==
  /\ LiveInit
  /\ [][LiveNext]_vars
  /\ \A j \in Jobs :
       /\ WF_vars(\E dies \in BOOLEAN : ExecTimeout(j, dies))
       /\ WF_vars(LinkTimeout(j))
       /\ WF_vars(Reported(j))
       /\ WF_vars(StreamOpen(j))
       /\ WF_vars(StreamEnd(j))

----------------------------------------------------------------------------
(* Claims *)

\* The job's response is a delivery: the stream of the file, or the link
\* revision's 200 with the download link.
Delivering(r) ==
  \/ r.phase \in {"opening", "piping"}
  \/ r.status = 200

\* C1: the retention sweeper never deletes a file that activeDownloads holds,
\* whatever its age and however its readdir and stat callbacks interleave with
\* the exit callback that marks the file.
C1_SweeperSparesInUse ==
  [][\A f \in FileNames :
       (/\ f \in DOMAIN sweepStat /\ f \notin DOMAIN sweepStat'
        /\ f \in DOMAIN disk /\ f \notin DOMAIN disk')
       => f \notin activeDownloads]_vars

\* C2: a job whose subprocess has been started and that has reached no terminal
\* state has its outputPath in the registry.
C2_RunningJobIsMarked ==
  rev = "registry" =>
    \A j \in Jobs : job[j].phase = "exec" => OutputFile(j) \in activeDownloads

\* C3: once the deadline has passed with the tool still running, the subprocess
\* has been sent the signal that cannot be ignored, it no longer runs, and the
\* job ends timed out (408), not failed and not succeeded.  Stated of index.js
\* and the link revision, whose deadlines the claim cites.
C3_DeadlineKillsAndTimesOut ==
  rev \in {"index", "link"} =>
    \A j \in Jobs :
      job[j].expired =>
        /\ job[j].sig = "SIGKILL"
        /\ job[j].proc # "running"
        /\ job[j].phase = "done" => job[j].status = 408

\* C4: a job that timed out delivers no artifact, and once its handler and its
\* cleanup timer are through, its file is not in the artifact directory.
\* Stated of index.js, the railway and the link revision, which the claim cites.
C4_TimedOutLeavesNothing ==
  rev \in {"index", "railway", "link"} =>
    \A j \in Jobs :
      (job[j].expired /\ job[j].phase = "done" /\ ~job[j].grace) =>
        /\ ~Delivering(job[j])
        /\ ~existsSync(disk, OutputFile(j))

\* C5: the response to a request whose tool ran past the timeout has status 408.
C5_TimeoutAnswers408 ==
  \A j \in Jobs : (job[j].expired /\ headersSent(j)) => job[j].status = 408

\* C6: when the tool exits with status 0 and no file is at the output path,
\* the caller gets an error response, no delivery starts and the handler does
\* not throw.
C6_ExitZeroWithoutFileFails ==
  [][\A j \in Jobs :
       (/\ job[j].phase = "exec" /\ job'[j].phase # "exec"
        /\ job'[j].code = "0"
        /\ ~existsSync(disk, OutputFile(j)))
       => /\ job'[j].status \in {404, 500}
          /\ ~crashed']_vars

\* C7: a delivery starts only after an exit with status zero and with a
\* non-empty file at the path it delivers.  Stated of index.js and part_002,
\* which the claim cites.
C7_DeliveryNeedsNonEmptyFile ==
  [][\A j \in Jobs :
       (rev \in {"index", "stream"} /\ ~Delivering(job[j]) /\ Delivering(job'[j]))
       => /\ job'[j].code = "0"
          /\ existsSync(disk, job'[j].file)
          /\ disk[job'[j].file].size > 0]_vars

\* C8: of the requests a client sends while its rate-limit entry lives, the
\* first N = 10 pass the gate and every later one is answered 429.
C8_FirstNPassRestRejected ==
  \A c \in Clients : \A k \in 1..Len(gateLog[c]) :
    (gateLog[c][k] = TOO_MANY) <=> (k > RATE_LIMIT_MAX_REQUESTS)

\* C8 witness: index.js has answered a client's 15 requests of one window, the
\* 10th passed and the 11th to the 15th got 429.
C8_Witness ==
  /\ rev = "index"
  /\ \E c \in Clients :
       /\ Len(gateLog[c]) = 15
       /\ gateLog[c][10] = NEXT
       /\ \A k \in 11..15 : gateLog[c][k] = TOO_MANY

\* The request count the table holds for a client.
StoredCount(c) ==
  IF rev \in WindowRevs THEN rateLimitMap[c].count ELSE rateLimitMap[c]

\* C9: the count stored for a client never exceeds N = 10.
C9_StoredCountAtMostN ==
  \A c \in DOMAIN rateLimitMap : StoredCount(c) <= RATE_LIMIT_MAX_REQUESTS

\* C10: a request answered 429 leaves the client's entry of the table as it was.
C10_RejectionNotCounted ==
  [][\A c \in Clients :
       (/\ Len(gateLog'[c]) = Len(gateLog[c]) + 1
        /\ gateLog'[c][Len(gateLog'[c])] = TOO_MANY)
       => /\ c \in DOMAIN rateLimitMap
          /\ rateLimitMap'[c] = rateLimitMap[c]]_vars

\* The count a table holds for a client, 0 without an entry.
CountIn(m, c) ==
  IF c \notin DOMAIN m THEN 0
  ELSE IF rev \in WindowRevs THEN m[c].count ELSE m[c]

\* The requests of the log that passed the gate.
Passed(log) == {k \in 1..Len(log) : log[k] = NEXT}

\* C11: a request answered 400 for its URL has gone through the gate like an
\* admitted one: it raised the client's count by exactly one (to one when it
\* opened a new window), and the requests that passed in the window, the 400s
\* among them, are at most N = 10.
C11_ContentRejectCounted ==
  [][(/\ rev \in GateRevs
      /\ post'.flip # post.flip
      /\ post'.status = BAD_REQUEST)
     => LET c == post'.client
        IN /\ gateLog'[c][Len(gateLog'[c])] = NEXT
           /\ CountIn(rateLimitMap', c) =
                IF Len(gateLog'[c]) = 1 THEN 1 ELSE CountIn(rateLimitMap, c) + 1
           /\ Cardinality(Passed(gateLog'[c])) <= RATE_LIMIT_MAX_REQUESTS]_vars

\* C11 witness: index.js has answered 400 to an ftp URL that was the tenth
\* request of its window.
C11_Witness ==
  /\ rev = "index"
  /\ post.status = BAD_REQUEST
  /\ post.url.protocol = "ftp:"
  /\ Len(gateLog[post.client]) = RATE_LIMIT_MAX_REQUESTS
  /\ CountIn(rateLimitMap, post.client) = RATE_LIMIT_MAX_REQUESTS

\* C12: a request answered 429 by the gate starts no subprocess, creates no
\* job and no registry entry, and leaves the artifact directory as it was.
C12_RateLimitedTouchesNothing ==
  [][(post'.flip # post.flip /\ post'.status = TOO_MANY)
     => /\ job' = job
        /\ activeDownloads' = activeDownloads
        /\ disk' = disk]_vars

\* C12 witness: the gate has answered 429 to a request whose URL the handler
\* would have accepted, with a job slot free.
C12_Witness ==
  /\ post.status = TOO_MANY
  /\ Validate(rev, post.url) = 0
  /\ FreeJob # {}

\* C13: a request the gate lets through whose URL is missing, does not parse
\* or has a scheme other than http and https is answered 400 and starts no
\* subprocess.  Stated of index.js and the registry revision, which the claim
\* cites.
C13_InvalidUrlRejected ==
  [][(/\ rev \in {"index", "registry"}
      /\ post'.flip # post.flip
      /\ post'.status # TOO_MANY
      /\ ~(Parses(post'.url) /\ post'.url.protocol \in {"http:", "https:"}))
     => /\ post'.status = BAD_REQUEST
        /\ job' = job]_vars

\* The host is a domain of the list or a subdomain of one.
OnAllowList(h) ==
  \E d \in supportedDomains : h = d \/ endsWith(h, <<Dot>> \o d)

\* C14: a request the gate lets through whose URL parses but whose host is not
\* on the list of supported domains is answered 400, starts no subprocess and
\* creates no registry entry.  Stated of index.js and the registry revision,
\* which the claim cites.
C14_UnsupportedDomainRejected ==
  [][(/\ rev \in {"index", "registry"}
      /\ post'.flip # post.flip
      /\ post'.status # TOO_MANY
      /\ Parses(post'.url)
      /\ ~OnAllowList(post'.url.hostname))
     => /\ post'.status = BAD_REQUEST
        /\ job' = job
        /\ activeDownloads' = activeDownloads]_vars

\* C15: no failure of a request ends the server process.  Stated of the
\* registry and the docker revision, which the claim cites.
C15_NoRequestCrashesServer ==
  rev \in {"registry", "docker"} => ~crashed

\* The job's request has reached the start of its subprocess.
Started(j) == job[j].phase # "none"

\* C16: no two jobs have the same outputPath.  Stated of the registry revision
\* and part_002, which the claim cites.
C16_OutputPathsDistinct ==
  rev \in {"registry", "stream"} =>
    \A i, j \in Jobs :
      (i # j /\ Started(i) /\ Started(j)) => OutputFile(i) # OutputFile(j)

\* C17: when the read stream of a job's artifact fails, the path is no longer
\* in activeDownloads.
C17_StreamErrorReleases ==
  [][\A j \in Jobs :
       (/\ rev = "registry"
        /\ job[j].phase = "opening"
        /\ job'[j].phase = "done")
       => job[j].file \notin activeDownloads']_vars

\* C18: while a job's delivery stream reads its file, the file's path is in
\* activeDownloads.
C18_ReleaseFollowsStreamEnd ==
  rev = "registry" =>
    \A j \in Jobs :
      job[j].phase \in {"opening", "piping"} => job[j].file \in activeDownloads

\* The file is on disk, not in activeDownloads and older than the retention
\* window.
Stale(f) ==
  /\ f \in DOMAIN disk
  /\ f \notin activeDownloads
  /\ disk[f].age > FILE_RETENTION_MS

\* The file names of the registry revision: `${fileId}.mp4`.
RegistryFiles == {<<t, NewTag("registry", j, j)>> : t \in Stamps, j \in Jobs}

\* C19: with the sweeper kept running, a file that is released and older than
\* the retention window does not stay so: a sweep deletes it, unless it is
\* marked or written again before, or the server process has ended.
C19_ReleasedStaleIsSwept ==
  \A f \in RegistryFiles :
    (Stale(f) /\ ~crashed) ~> (~Stale(f) \/ crashed)

\* C19 witness: a file was delivered and released at its stream's end, and
\* the stat callback of a scan that found it older than the retention window
\* is about to run.
C19_Witness ==
  \E f \in DOMAIN sweepStat :
    /\ Stale(f)
    /\ sweepStat[f] > FILE_RETENTION_MS
    /\ \E j \in Jobs : job[j].file = f /\ job[j].status = 200 /\ job[j].phase = "done"
    /\ ~crashed

\* C20: the handler of a delivery stream's end does not delete the file, it
\* arms the grace timer; when that timer has fired the file is gone.  Stated of
\* the registry revision and part_002, which the claim cites.
C20_DeletionAfterGrace ==
  [][\A j \in Jobs :
       rev \in {"registry", "stream"} =>
         /\ (/\ job[j].phase = "piping" /\ job'[j].phase = "done"
             /\ job[j].file \in DOMAIN disk)
            => (job[j].file \in DOMAIN disk' /\ job'[j].grace)
         /\ (job[j].grace /\ ~job'[j].grace)
            => job[j].file \notin DOMAIN disk']_vars

\* No handler, callback or timer of a job is left to run.
Quiescent ==
  \A j \in Jobs :
    /\ job[j].phase \in {"none", "done"}
    /\ ~job[j].timer
    /\ ~job[j].grace

\* C21: every file a job wrote is deleted in the end: when no handler,
\* callback or timer of any job is left to run, the artifact directory is
\* empty.  Stated of index.js and the link revision, which the claim cites and
\* which have no sweeper.
C21_NoFileLeftBehind ==
  (rev \in {"index", "link"} /\ Quiescent) => disk = EmptyMap

\* C22: a 200 delivery streams as many bytes as the Content-Length it
\* declared.  Stated of index.js, the registry revision and part_002, which
\* the claim cites.
C22_DeclaredLengthIsSent ==
  rev \in {"index", "registry", "stream"} =>
    \A j \in Jobs :
      (job[j].status = 200 /\ job[j].phase \in {"piping", "done"})
        => job[j].sent = job[j].declared

\* C23: a job whose tool exits 0 with the error marker in its diagnostics is
\* treated as failed: its response is never a delivery.  Stated of index.js
\* and part_002, which the claim cites.
C23_MarkerMeansFailed ==
  rev \in {"index", "stream"} =>
    \A j \in Jobs :
      (job[j].code = "0" /\ job[j].marker)
        => ~Delivering(job[j])

\* The `error` property of the JSON body the job was answered with: the
\* tool's stderr (part_001:520-527), the caught error's message, which for
\* exec is "Command failed: " with the command line and stderr
\* (part_001:597-601), or else a fixed text or nothing.  The marker branch is
\* the one 500 of a job that exited 0 with the marker, the catch block the one
\* 500 of a failed exec.
errorField(rv, r) ==
  IF rv = "railway" /\ r.status = 500 /\ r.code = "0" /\ r.marker
    THEN "stderr"
  ELSE IF rv = "railway" /\ r.status = 500 /\ r.code # "0"
    THEN "error.message"
  ELSE "fixed"

\* C27: no response body carries raw internal error text.  Stated of index.js
\* and the railway revision, which the claim cites.
C27_NoRawErrorText ==
  rev \in {"index", "railway"} =>
    \A j \in Jobs : errorField(rev, job[j]) \notin {"stderr", "error.message"}

\* C28: in a running server a path in activeDownloads is the path of a file
\* on disk: no registry entry outlives its file.
C28_RegistryEntryHasFile ==
  (rev = "registry" /\ ~crashed) =>
    \A f \in activeDownloads : existsSync(disk, f)

\* C29: a read error of the stream before any byte was committed is answered
\* with 500 by a server that keeps running, and a response whose bytes have
\* been sent keeps its status.  Stated of index.js, the railway revision and
\* part_002, which the claim cites.
C29_StreamErrorAnswered ==
  [][\A j \in Jobs :
       rev \in {"index", "railway", "stream"} =>
         ( /\ (job[j].phase = "opening" /\ job'[j].phase = "done")
                => (job'[j].status = 500 /\ ~crashed')
           /\ (job[j].phase = "piping" /\ ~crashed')
                => job'[j].status = job[j].status )]_vars

\* C24: the URL in every command line is the output of sanitizeUrl for the
\* URL of the request.  Stated of index.js, the registry revision and
\* part_002, which the claim cites.
C24_CommandUrlSanitized ==
  (rev \in {"index", "registry", "stream"} /\ command.built /\ command.shell)
    => command.url = sanitizeUrl(command.raw)

\* C25: the output of sanitizeUrl holds no shell metacharacter, quotes,
\* redirections and line breaks included, and is at most 500 characters long.
C25_SanitizedIsShellSafe ==
  (rev = "index" /\ command.built) =>
    /\ CharsOf(sanitizeUrl(command.raw)) \cap ShellMeta = {}
    /\ length(sanitizeUrl(command.raw)) <= MaxUrlLength

\* C26: every invocation of the tool is an argument vector given to the
\* process, never a string a shell interprets.  Stated of index.js and the
\* link revision, which the claim cites.
C26_InvocationIsArgv ==
  (rev \in {"index", "link"} /\ command.built) => ~command.shell

\* The client's entry is in the table after its window has closed: resetTime
\* has passed, or, for a bare counter, the table's clear has come due.
Expired(c) ==
  /\ c \in DOMAIN rateLimitMap
  /\ IF rev \in WindowRevs THEN WindowPassed(now, rateLimitMap[c])
                           ELSE now >= nextClear

\* C30: no entry of the rate-limit table is kept for ever after its window
\* has closed: once a clear period has gone by, an expired entry is removed
\* (or renewed by its client), whether or not the client ever returns.
C30_ExpiredEntryRemoved ==
  \A c \in Clients : (Expired(c) /\ now >= nextClear) ~> ~Expired(c)

\* A stat callback of the sweeper deletes the file f in this step.
SweepDeletes(f) ==
  /\ f \in DOMAIN sweepStat /\ f \notin DOMAIN sweepStat'
  /\ f \in DOMAIN disk /\ f \notin DOMAIN disk'

\* C31: the sweeper deletes a file only if the file is not in activeDownloads
\* and its age is strictly greater than the retention window.
C31_SweepDeletesOnlyStaleUnused ==
  [][\A f \in FileNames :
       SweepDeletes(f) =>
         (f \notin activeDownloads /\ disk[f].age > FILE_RETENTION_MS)]_vars

\* The stat callback of f runs in this step.
StatCallback(f) == f \in DOMAIN sweepStat /\ f \notin DOMAIN sweepStat'

\* C32: a failure to stat or delete one file does not stop the sweep.  The
\* step in which the callback of one file fails leaves the callbacks of the
\* other files of the scan queued; in a scan with a failure a callback that
\* does not fail deletes its file if it is there and past retention; and
\* every callback queued in such a scan is run, unless the server has ended.
C32_SweepSurvivesFailure ==
  /\ [][\A f \in FileNames :
          (StatCallback(f) /\ f \in sweepFailed')
            => \A g \in DOMAIN sweepStat \ {f} :
                 g \in DOMAIN sweepStat' /\ sweepStat'[g] = sweepStat[g]]_vars
  /\ [][\A g \in FileNames :
          (/\ StatCallback(g)
           /\ sweepFailed # {}
           /\ g \notin sweepFailed'
           /\ existsSync(disk, g)
           /\ PastRetention(sweepStat[g]))
          => ~existsSync(disk', g)]_vars
  /\ \A g \in RegistryFiles :
       (g \in DOMAIN sweepStat /\ sweepFailed # {} /\ ~crashed)
         ~> (g \notin DOMAIN sweepStat \/ crashed)

\* C32 witness: the callback of one file has failed, and another file of the
\* same scan, on disk, past retention and not in activeDownloads, is still to
\* be examined.
C32_Witness ==
  /\ sweepFailed # {}
  /\ ~crashed
  /\ \E g \in DOMAIN sweepStat \ sweepFailed :
       /\ existsSync(disk, g)
       /\ PastRetention(sweepStat[g])
       /\ g \notin activeDownloads

\* C33: at most one response is sent for a request.  Once the job's response
\* has been sent its status stays, and no callback of the job calls
\* res.status(...).json again, which would throw and end the server.  Stated
\* of the link revision, the registry revision and part_002, which the claim
\* cites.
C33_AtMostOneResponse ==
  [][\A j \in Jobs :
       (rev \in {"link", "registry", "stream"} /\ headersSent(j))
         => /\ job'[j].status = job[j].status
            /\ (job'[j] # job[j]) => ~crashed']_vars

\* C34: every request whose subprocess was started is answered in the end, a
\* delivery or an error status, when timers and process events are delivered,
\* also when the tool never exits.  A server that an uncaught exception has
\* ended is left aside.  Stated of the link revision, the registry revision
\* and part_002, which the claim cites.
C34_EveryRequestAnswered ==
  \A j \in Jobs : (job[j].phase = "exec") ~> (headersSent(j) \/ crashed)

\* C35: the file a job streams is the file its own subprocess was told to
\* write, and the subprocess of no other request was told to write it.  Stated
\* of index.js and the registry revision, which the claim cites.
C35_StreamsOwnFile ==
  rev \in {"index", "registry"} =>
    \A j \in Jobs :
      job[j].phase \in {"opening", "piping"} =>
        /\ job[j].file = OutputFile(j)
        /\ \A k \in Jobs \ {j} : Started(k) => OutputFile(k) # job[j].file

\* C36: every download is run in the form the startup probe verified, and
\* the binding made at startup stays.
C36_RunsVerifiedForm ==
  /\ command.built => command.program = tool.verified
  /\ tool.phase = "listening" =>
       baseCommand(rev, tool.bound) = tool.verified

====
